---- MODULE Spec2Model ----
(***************************************************************************)
(* Model of the tool-calling agent of src/app.py: the LangGraph workflow   *)
(* built by create_agent() (nodes agent, tools, output) and the Streamlit  *)
(* handler main() that runs one turn per chat input.                        *)
(***************************************************************************)
EXTENDS Integers, Sequences, FiniteSets, TLC

VARIABLES
    pc,        \* where the handler is: Idle, Agent, Tools, Output, Halted, Failed
    messages,  \* state['messages'] of the running graph invocation
    chat,      \* st.session_state.messages
    turn,      \* number of chat inputs submitted so far
    outcomes,  \* per tool call of the running tools node: Pending or a ToolMessage
    sent,      \* the history handed to the latest google_model.invoke
    trace,     \* the nodes that have run in this turn, in order
    completed  \* the tool calls of the tools node, in the order they finished

vars == <<pc, messages, chat, turn, outcomes, sent, trace, completed>>

\* ---------------------------------------------------------------- bounds
MaxTurns == 2
MaxCalls == 2

\* ---------------------------------------------------------------- data
SystemPrompt == "system_prompt"

UserTexts == {"What is AAPL's revenue?", SystemPrompt}

\* The text of a model reply; the graph never reads it.
ReplyTexts == {"answer"}

NoId == <<>>

Pending == [type |-> "pending"]

SystemMessage(c) ==
    [type |-> "system", content |-> c, tool_calls |-> <<>>,
     tool_call_id |-> NoId, name |-> "", status |-> ""]

HumanMessage(c) ==
    [type |-> "human", content |-> c, tool_calls |-> <<>>,
     tool_call_id |-> NoId, name |-> "", status |-> ""]

AIMessage(c, calls) ==
    [type |-> "ai", content |-> c, tool_calls |-> calls,
     tool_call_id |-> NoId, name |-> "", status |-> ""]

ToolMessage(c, id, n, s) ==
    [type |-> "tool", content |-> c, tool_calls |-> <<>>,
     tool_call_id |-> id, name |-> n, status |-> s]

\* ---------------------------------------------------------------- tools
LocalTools == {"roe", "percentage_change"}
IntegrationTools == {"IncomeStatements"}

\* The argument sets the model draws a tool call from: (name, first, second)
\* positional arguments; the integration tool's ticker and period are not
\* modelled and are 0.
CallChoices ==
    { [name |-> "roe", a |-> 100, b |-> 500],
      [name |-> "roe", a |-> 1, b |-> 0],
      [name |-> "percentage_change", a |-> 0, b |-> 10],
      [name |-> "percentage_change", a |-> 3, b |-> 4],
      [name |-> "IncomeStatements", a |-> 0, b |-> 0] }

RECURSIVE GCD(_, _)
GCD(x, y) == IF y = 0 THEN x ELSE GCD(y, x % y)

Abs(x) == IF x < 0 THEN -x ELSE x

\* A float result, written as the reduced fraction num/den (den > 0).
FloatRepr(num, den) ==
    LET g == GCD(Abs(num), den)
    IN  ToString(num \div g) \o "/" \o ToString(den \div g)

\* round(n / d) to the nearest integer, ties to even (d > 0).
RoundHalfEven(n, d) ==
    LET f == n \div d
        r == n % d
    IN  IF 2 * r < d THEN f
        ELSE IF 2 * r > d THEN f + 1
        ELSE IF f % 2 = 0 THEN f ELSE f + 1

Ok(c) == [status |-> "success", content |-> c]
Raised(e) == [status |-> "error", content |-> "Error: " \o e \o " Please fix your mistakes."]

roe(net_income, equity) ==
    IF equity = 0 THEN Raised("ZeroDivisionError('float division by zero')")
    ELSE Ok(FloatRepr(net_income, equity))

\* percentage_change without its check of start (lines 88-89).
percentage_change_unchecked(start, end) ==
    IF start = 0 THEN Raised("ZeroDivisionError('float division by zero')")
    ELSE Ok(FloatRepr(RoundHalfEven((end - start) * 10000, start), 100))

percentage_change(start, end) ==
    IF start = 0 THEN Raised("ValueError('Start cannot be zero')")
    ELSE Ok(FloatRepr(RoundHalfEven((end - start) * 10000, start), 100))

IncomeStatements(available) ==
    IF available THEN Ok("income_statements")
    ELSE Raised("ConnectionError('financial datasets API unavailable')")

\* The ToolMessage built without the id of its call.
RunToolNoId(call, available) ==
    LET r == CASE call.name = "roe" -> roe(call.a, call.b)
               [] call.name = "percentage_change" -> percentage_change(call.a, call.b)
               [] OTHER -> IncomeStatements(available)
    IN  ToolMessage(r.content, NoId, call.name, r.status)

\* One tool call run by the tools node: the tool's return value, or the
\* exception it raised, as the ToolMessage of that call.
RunTool(call, available) ==
    LET r == CASE call.name = "roe" -> roe(call.a, call.b)
               [] call.name = "percentage_change" -> percentage_change(call.a, call.b)
               [] OTHER -> IncomeStatements(available)
    IN  ToolMessage(r.content, call.id, call.name, r.status)

\* ---------------------------------------------------------------- graph
Last(s) == s[Len(s)]

\* should_continue that never ends the turn.
should_continue_always(msgs) == "Tools"

\* should_continue: the branch taken after the agent node.
should_continue(msgs) ==
    IF Last(msgs).tool_calls # <<>> THEN "Tools" ELSE "Halted"

\* The graph with the edge tools -> END.
ToolsNextEnds == "Halted"

\* The graph has the single edge tools -> output.
ToolsNext == "Output"

\* The graph with conditional edges out of output as well.
OutputLoops(msgs) == should_continue(msgs)

\* The graph has no edge out of output: the invocation ends after it.
OutputNext(msgs) == "Halted"

\* The prompt inserted without looking at the first message.
EnsurePromptAlways(msgs) ==
    IF msgs # <<>> THEN <<SystemMessage(SystemPrompt)>> \o msgs ELSE msgs

\* call_agent / call_output, lines 141-142 and 148-149: the prompt is
\* inserted when the first message's content differs from it.
EnsurePrompt(msgs) ==
    IF msgs # <<>> /\ msgs[1].content # SystemPrompt
    THEN <<SystemMessage(SystemPrompt)>> \o msgs
    ELSE msgs

\* The replies google_model.invoke can return for a history of length n in
\* turn t: a text and up to MaxCalls tool calls, each with a fresh id.
CallSeqs == UNION { [1..k -> CallChoices] : k \in 0..MaxCalls }

WithIds(cs, t, n) ==
    [i \in 1..Len(cs) |->
        [id |-> <<t, n, i>>, name |-> cs[i].name, a |-> cs[i].a, b |-> cs[i].b]]

Replies(t, n) ==
    { AIMessage(c, WithIds(cs, t, n)) : c \in ReplyTexts, cs \in CallSeqs }

\* ---------------------------------------------------------------- main
Init ==
    /\ pc = "Idle"
    /\ messages = <<>>
    /\ chat = <<>>
    /\ turn = 0
    /\ outcomes = <<>>
    /\ sent = <<>>
    /\ trace = <<>>
    /\ completed = <<>>

\* main(), lines 189-201: a chat input is recorded and a fresh graph
\* invocation starts on the single HumanMessage.
Submit(text) ==
    /\ pc \in {"Idle", "Halted", "Failed"}
    /\ turn < MaxTurns
    /\ turn' = turn + 1
    /\ chat' = Append(chat, [role |-> "user", content |-> text])
    /\ messages' = <<HumanMessage(text)>>
    /\ pc' = "Agent"
    /\ outcomes' = <<>>
    /\ sent' = <<>>
    /\ trace' = <<>>
    /\ completed' = <<>>

\* main(), lines 202-206, once the invocation has returned.
Record(next, msgs) ==
    IF next = "Halted"
    THEN chat' = Append(chat, [role |-> "assistant", content |-> Last(msgs).content])
    ELSE chat' = chat

\* What a finished model node leaves behind, for either node.
ModelNode(node, reply, next) ==
    LET history == EnsurePrompt(messages)
        after == Append(history, reply)
    IN  /\ sent' = history
        /\ messages' = after
        /\ trace' = Append(trace, node)
        /\ pc' = next
        /\ outcomes' = IF next = "Tools"
                       THEN [i \in 1..Len(reply.tool_calls) |-> Pending]
                       ELSE <<>>
        /\ Record(next, after)
        /\ turn' = turn
        /\ completed' = <<>>

call_agent ==
    /\ pc = "Agent"
    /\ \E reply \in Replies(turn, Len(EnsurePrompt(messages))) :
          ModelNode("agent", reply,
                    should_continue(Append(EnsurePrompt(messages), reply)))

call_output ==
    /\ pc = "Output"
    /\ \E reply \in Replies(turn, Len(EnsurePrompt(messages))) :
          ModelNode("output", reply,
                    OutputNext(Append(EnsurePrompt(messages), reply)))

\* google_model.invoke raises (lines 143, 150): the exception leaves
\* agent.invoke and main() stops before line 202.
ModelFails ==
    /\ pc \in {"Agent", "Output"}
    /\ messages' = EnsurePrompt(messages)
    /\ sent' = EnsurePrompt(messages)
    /\ trace' = Append(trace, IF pc = "Agent" THEN "agent" ELSE "output")
    /\ pc' = "Failed"
    /\ completed' = <<>>
    /\ UNCHANGED <<chat, turn, outcomes>>

\* tools node: one task per tool call of the last message, run concurrently.
ToolRun(i) ==
    /\ pc = "Tools"
    /\ i \in 1..Len(outcomes)
    /\ outcomes[i] = Pending
    /\ \E available \in BOOLEAN :
          outcomes' = [outcomes EXCEPT ![i] = RunTool(Last(messages).tool_calls[i], available)]
    /\ completed' = Append(completed, i)
    /\ UNCHANGED <<pc, messages, chat, turn, sent, trace>>

\* The outputs gathered as the tasks finish, not in the order of the calls.
CollectedAsCompleted(outs, order) == [k \in 1..Len(order) |-> outs[order[k]]]

\* The outputs of the tools node: the tasks' results in the order of the
\* calls they were mapped over, whatever the order they finished in.
Collected(outs, order) == outs

\* tools node: every task is done; the ToolMessages are appended in the
\* order of the calls and the edge tools -> output is taken.
ToolsDone ==
    /\ pc = "Tools"
    /\ \A i \in 1..Len(outcomes) : outcomes[i] # Pending
    /\ messages' = messages \o Collected(outcomes, completed)
    /\ trace' = Append(trace, "tools")
    /\ pc' = ToolsNext
    /\ completed' = <<>>
    /\ UNCHANGED <<chat, turn, outcomes, sent>>

Next ==
    \/ \E text \in UserTexts : Submit(text)
    \/ call_agent
    \/ call_output
    \/ ModelFails
    \/ \E i \in 1..MaxCalls : ToolRun(i)
    \/ ToolsDone

Spec == Init /\ [][Next]_vars

\* One turn of a session: the first chat input and the graph invocation it
\* starts. A later turn starts the same invocation on a fresh conversation
\* (Submit), and the graph never reads the chat history.
FirstSubmit(text) == turn = 0 /\ Submit(text)

TurnNext ==
    \/ \E text \in UserTexts : FirstSubmit(text)
    \/ call_agent
    \/ call_output
    \/ ModelFails
    \/ \E i \in 1..MaxCalls : ToolRun(i)
    \/ ToolsDone

\* Every step of a running turn is taken eventually: agent.invoke drives the
\* nodes to the end of the invocation, while a chat input is up to the user.
FairSpec ==
    /\ Init /\ [][TurnNext]_vars
    /\ WF_vars(call_agent \/ ModelFails)
    /\ WF_vars(call_output \/ ModelFails)
    /\ WF_vars(ToolsDone)
    /\ \A i \in 1..MaxCalls : WF_vars(ToolRun(i))

\* ---------------------------------------------------------------- views
Positions(type) == { i \in 1..Len(messages) : messages[i].type = type }

HasAI == Positions("ai") # {}

\* The first Assistant message of the turn: the agent node's response.
FirstAI == messages[CHOOSE i \in Positions("ai") : \A j \in Positions("ai") : i <= j]

\* The user text of the running turn.
TurnText == messages[CHOOSE i \in Positions("human") : TRUE].content

Running == {"Agent", "Tools", "Output"}

DomainError(call) ==
    \/ call.name = "percentage_change" /\ call.a = 0
    \/ call.name = "roe" /\ call.b = 0

\* ---------------------------------------------------------------- C1
\* C1: when the output node has run, the turn continues in Tools if the
\* response carries at least one tool request and halts only if it carries
\* none.
C1_OutputRoutesOnToolRequests ==
    [][ (pc = "Output" /\ pc' \notin {"Output", "Failed"})
            => pc' = (IF Last(messages').tool_calls # <<>> THEN "Tools" ELSE "Halted") ]_vars

\* ---------------------------------------------------------------- C2
\* C2: the message taken as the answer of a halted turn (the last message)
\* is an Assistant message with no tool requests.
C2_AnswerHasNoToolRequests ==
    pc = "Halted" => (Last(messages).type = "ai" /\ Last(messages).tool_calls = <<>>)

C4_NoToolRequestHaltsAfterAgent ==
    (HasAI /\ FirstAI.tool_calls = <<>>) =>
        /\ pc = "Halted"
        /\ trace = <<"agent">>
        /\ Cardinality(Positions("ai")) = 1
        /\ Positions("tool") = {}
        /\ Last(messages) = FirstAI

C4_Witness ==
    /\ pc = "Halted"
    /\ HasAI
    /\ FirstAI.tool_calls = <<>>
    /\ trace = <<"agent">>

\* ---------------------------------------------------------------- C5
C5_Ordered ==
    /\ \E n \in 0..3 : trace = SubSeq(<<"agent", "tools", "output">>, 1, n)
    /\ pc = "Tools" =>
          /\ trace = <<"agent">>
          /\ Last(messages) = FirstAI
          /\ FirstAI.tool_calls # <<>>
    /\ pc = "Output" =>
          LET calls == FirstAI.tool_calls
              n == Len(messages)
              k == Len(calls)
          IN  /\ trace = <<"agent", "tools">>
              /\ k >= 1
              /\ n > k
              /\ messages[n - k] = FirstAI
              /\ \A i \in 1..k :
                    /\ messages[n - k + i].type = "tool"
                    /\ messages[n - k + i].tool_call_id = calls[i].id

C5_Steps ==
    /\ (pc = "Agent" /\ pc' \notin {"Agent", "Failed"} /\ Last(messages').tool_calls # <<>>)
          => pc' = "Tools"
    /\ (pc = "Tools" /\ pc' # "Tools") => pc' = "Output"
    /\ (pc = "Output" /\ pc' # "Output") => sent' = messages

\* C5: an agent response with a tool request leads to Tools and Tools always
\* leads to Output; the nodes run in the order agent, tools, output; Tools
\* starts on the agent's Assistant message and Output starts on (and sends
\* the model) a conversation that ends with one ToolResult per request.
C5_AgentToolsOutputInOrder == [](C5_Ordered) /\ [][C5_Steps]_vars

C5_Witness ==
    /\ pc = "Output"
    /\ Len(FirstAI.tool_calls) = 2

\* ---------------------------------------------------------------- C6
C6_Captured ==
    (HasAI /\ "tools" \in { trace[i] : i \in 1..Len(trace) }) =>
        LET calls == FirstAI.tool_calls
            at == (CHOOSE i \in Positions("ai") : \A j \in Positions("ai") : i <= j)
        IN  \A i \in 1..Len(calls) :
                /\ messages[at + i].type = "tool"
                /\ messages[at + i].tool_call_id = calls[i].id
                /\ messages[at + i].status \in {"success", "error"}
                /\ DomainError(calls[i]) => messages[at + i].status = "error"
                /\ (calls[i].name = "percentage_change" /\ calls[i].a = 0) =>
                      messages[at + i].content =
                          "Error: ValueError('Start cannot be zero') Please fix your mistakes."

C6_Steps ==
    /\ pc = "Tools" => pc' \in {"Tools", "Output"}
    /\ (pc = "Tools" /\ outcomes' # outcomes) =>
          \A i \in 1..Len(outcomes') : outcomes'[i] # outcomes[i] =>
              /\ outcomes'[i].type = "tool"
              /\ DomainError(Last(messages).tool_calls[i]) => outcomes'[i].status = "error"
    /\ (pc = "Output" /\ pc' # "Output") =>
          \A i \in Positions("tool") : sent'[i] = messages[i]

\* C6: a failing tool execution ends as the error ToolResult of its own
\* request, the tools node never aborts the turn and always hands over to
\* Output, and the output node's model call is sent every ToolResult.
C6_ToolFailureIsCaptured == [](C6_Captured) /\ [][C6_Steps]_vars

C6_Witness ==
    /\ pc = "Halted"
    /\ trace = <<"agent", "tools", "output">>
    /\ \E i, j \in 1..Len(sent) :
          /\ sent[i].type = "tool" /\ sent[i].status = "error"
          /\ sent[i].name = "IncomeStatements"
          /\ sent[j].type = "tool" /\ sent[j].status = "error"
          /\ sent[j].name = "percentage_change"

\* ---------------------------------------------------------------- C7
\* C7: a halted turn in which every model response requested tools was
\* stopped by the iteration guard after exactly 10 tool rounds.
C7_GuardStopsAfterTenRounds ==
    (pc = "Halted" /\ \A i \in Positions("ai") : messages[i].tool_calls # <<>>)
        => Cardinality({ i \in 1..Len(trace) : trace[i] = "tools" }) = 10

\* ---------------------------------------------------------------- C8
\* C8: every running turn reaches the end of its invocation (halted, or
\* stopped by a failed model call), within three node runs.
C8_TurnTerminates ==
    /\ [](Len(trace) <= 3)
    /\ [](pc \in Running => <>(pc \in {"Halted", "Failed"}))

C8_Witness ==
    /\ pc = "Halted"
    /\ trace = <<"agent", "tools", "output">>
    /\ Last(messages).tool_calls # <<>>

\* ---------------------------------------------------------------- C9
\* C9: a failed model call leaves the conversation exactly as it was.
C9_FailedCallLeavesConversation ==
    [][ pc' = "Failed" => messages' = messages ]_vars

\* ---------------------------------------------------------------- C10
\* C10: a new turn starts on the conversation of the earlier turns followed
\* by the new User message.
C10_ConversationPersists ==
    [][ turn' = turn + 1 =>
            /\ Last(messages').type = "human"
            /\ messages' = Append(messages, Last(messages')) ]_vars

\* ---------------------------------------------------------------- C11
C11_Batch ==
    (pc = "Tools" /\ pc' # "Tools") =>
        LET calls == Last(messages).tool_calls
            k == Len(calls)
            n == Len(messages)
        IN  /\ Len(messages') = n + k
            /\ SubSeq(messages', 1, n) = messages
            /\ Len(completed) = k
            /\ \A i \in 1..k :
                  /\ messages'[n + i].type = "tool"
                  /\ messages'[n + i].tool_call_id = calls[i].id
                  /\ messages'[n + i].name = calls[i].name

\* C11: the tools node appends exactly one ToolResult per request of the
\* Assistant message, carrying that request's id and tool name, in the
\* order of the requests, in whatever order the tool calls finished.
C11_ResultsInRequestOrder == [][C11_Batch]_vars

\* Both tool calls of a batch have finished, the second one first, and the
\* tools node is about to append their results.
C11_Witness ==
    /\ pc = "Tools"
    /\ completed = <<2, 1>>
    /\ Len(outcomes) = 2
    /\ outcomes[1].type = "tool" /\ outcomes[1].name = "IncomeStatements"
    /\ outcomes[2].type = "tool" /\ outcomes[2].name = "percentage_change"
    /\ ENABLED ToolsDone

\* ---------------------------------------------------------------- C12
IsPrefix(a, b) == Len(a) <= Len(b) /\ SubSeq(b, 1, Len(a)) = a

C12_Step ==
    turn' = turn =>
        \/ IsPrefix(messages, messages')
        \/ /\ pc = "Agent"
           /\ messages # <<>>
           /\ messages[1].type # "system"
           /\ messages' # <<>>
           /\ messages'[1] = SystemMessage(SystemPrompt)
           /\ IsPrefix(messages, Tail(messages'))

\* C12: within a turn every step leaves the existing messages as they are
\* and adds only at the end, except that the agent node may put the System
\* message in front once; the conversation never holds two System messages.
C12_AppendOnlyButOnePrepend ==
    [](Cardinality(Positions("system")) <= 1) /\ [][C12_Step]_vars

C12_Witness ==
    /\ pc = "Halted"
    /\ trace = <<"agent", "tools", "output">>
    /\ Positions("system") = {1}
    /\ sent # <<>>
    /\ sent[1].type = "system"

\* ---------------------------------------------------------------- C13
\* C13: the history handed to the model by a model call is non-empty, begins
\* with the System message of the prompt, holds the user message, and is
\* the conversation the call's response was appended to.
C13_HistoryStartsWithPrompt ==
    /\ trace # <<>> => sent # <<>>
    /\ sent # <<>> =>
          /\ sent[1] = SystemMessage(SystemPrompt)
          /\ \E i \in 1..Len(sent) : sent[i].type = "human"
          /\ pc \in {"Tools", "Halted"} /\ Last(trace) # "tools" =>
                sent = SubSeq(messages, 1, Len(messages) - 1)

\* ---------------------------------------------------------------- C14
\* C14: every ToolResult carries the id of exactly one request, a request of
\* an Assistant message that stands before it, and no two ToolResults carry
\* the same id.
C14_ResultsMatchRequests ==
    /\ \A i \in Positions("tool") :
          Cardinality({ jk \in (Positions("ai") \X (1..MaxCalls)) :
                          /\ jk[2] <= Len(messages[jk[1]].tool_calls)
                          /\ messages[jk[1]].tool_calls[jk[2]].id = messages[i].tool_call_id
                          /\ jk[1] < i }) = 1
    /\ \A i, j \in Positions("tool") :
          i # j => messages[i].tool_call_id # messages[j].tool_call_id

C14_Witness ==
    /\ pc = "Halted"
    /\ Cardinality(Positions("tool")) = 2
    /\ Cardinality(Positions("ai")) = 2
    /\ Len(Last(messages).tool_calls) = 2

\* ---------------------------------------------------------------- C16
Count(node) == Cardinality({ i \in 1..Len(trace) : trace[i] = node })

\* C16: in one turn the model is called at most twice (once by agent, at
\* most once by output) and the tools node runs at most once; output runs
\* only right after tools, and tools only right after an agent response
\* that carries a tool request.
C16_AtMostOneToolRound ==
    /\ Count("agent") <= 1
    /\ Count("output") <= 1
    /\ Count("tools") <= 1
    /\ Cardinality(Positions("ai")) <= 2
    /\ \A i \in 1..Len(trace) :
          /\ trace[i] = "output" => (i > 1 /\ trace[i - 1] = "tools")
          /\ trace[i] = "tools" =>
                (i > 1 /\ trace[i - 1] = "agent" /\ HasAI /\ FirstAI.tool_calls # <<>>)
    /\ pc = "Tools" => Last(messages).tool_calls # <<>>
    /\ pc = "Output" => Count("tools") = 1

C16_Witness ==
    /\ pc = "Halted"
    /\ turn = 2
    /\ Count("agent") = 1 /\ Count("tools") = 1 /\ Count("output") = 1
    /\ Last(messages).tool_calls # <<>>

\* ---------------------------------------------------------------- C17
\* C17: between turns the chat history alternates user, assistant, starting
\* with user and ending with assistant, also after a turn whose invocation
\* raised.
C17_ChatAlternates ==
    pc \in {"Idle", "Halted", "Failed"} =>
        /\ Len(chat) % 2 = 0
        /\ \A i \in 1..Len(chat) :
              chat[i].role = (IF i % 2 = 1 THEN "user" ELSE "assistant")

====
